---- MODULE Spec2Model ----
(***************************************************************************)
(* Expirable LRU cache (src/lru.go) on its intrusive doubly linked ring    *)
(* (src/list.go).  Callers and the sweep goroutine are threads that take   *)
(* the cache mutex; a handler is a sequence of steps under that mutex.     *)
(* Time is counted in minutes.                                             *)
(***************************************************************************)
EXTENDS Integers, Sequences, FiniteSets, TLC

\* ------------------------------------------------------------- bounds
NumKeys == 3
MaxTime == 1

KeySet == 1..NumKeys
Values == {"a", "b"}
\* the <<key, value>> pairs callers add: every key, and two values for one of
\* them (the code treats all keys alike)
AddArgs == {<<k, "a">> : k \in KeySet} \cup {<<1, v>> : v \in Values}
Callers == {"c1", "c2"}
Sweeper == "sweep"
Threads == Callers \cup {Sweeper}
\* the ttl arguments callers pass to AddWithTTL
TTLArgs == {0}
\* the size arguments callers pass to Resize
ResizeArgs == 0..2
\* the arguments of NewLRU: <<size, onEvict set, ttl, purgeEvery>>
NewArgs == {<<2, TRUE, 1, 0>>, <<-1, FALSE, 0, 0>>}

\* ------------------------------------------------------- program constants
Minute == 1
Hour == 60
noEvictionTTL == Hour * 24 * 365 * 10
FiveMinutes == Minute * 5

nil == -1
root == 0
MaxNodes == NumKeys + 1
Nodes == 1..MaxNodes
ZeroKT == 0
ZeroVT == ""
NilList == "nil"
EvictList == "evictList"

ZeroEntry == [key |-> ZeroKT, value |-> ZeroVT, expiresAt |-> 0]
ZeroElement == [next |-> nil, prev |-> nil, list |-> NilList, Value |-> ZeroEntry]

VARIABLES
    size,        \* Cache.size
    ttl,         \* Cache.ttl
    purgeEvery,  \* Cache.purgeEvery
    onEvicted,   \* Cache.onEvicted # nil
    done,        \* Cache.done is closed
    mutex,       \* Cache.Mutex is held
    items,       \* Cache.items: key -> element (nil: no entry)
    elem,        \* the heap of Elements; elem[root] is evictList.root
    len,         \* evictList.len
    now,         \* time.Now()
    pc,          \* where each thread is
    frame,       \* the locals of each thread's call
    old          \* history: the cache as the call found it

vars == <<size, ttl, purgeEvery, onEvicted, done, mutex, items, elem, len,
          now, pc, frame, old>>

\* ------------------------------------------------------------- list.go
\* a list value: the heap and the stored count
TheList == [elem |-> elem, len |-> len]

ListInit(l) ==
    [elem |-> [l.elem EXCEPT ![root].next = root, ![root].prev = root],
     len |-> 0]

NewList == ListInit([elem |-> [n \in {root} \cup Nodes |-> ZeroElement], len |-> 0])

ListLen(l) == l.len

\* Back that returns the front Element
BackIsFront(l) == IF l.len = 0 THEN nil ELSE l.elem[root].next

Back(l) == IF l.len = 0 THEN nil ELSE l.elem[root].prev

Prev(l, e) ==
    IF l.elem[e].list # NilList /\ l.elem[e].prev # root THEN l.elem[e].prev ELSE nil

lazyInit(l) == IF l.elem[root].next = nil THEN ListInit(l) ELSE l

insert(l, e, at) ==
    LET h1 == [l.elem EXCEPT ![e].prev = at]
        h2 == [h1 EXCEPT ![e].next = h1[at].next]
        h3 == [h2 EXCEPT ![h2[e].prev].next = e]
        h4 == [h3 EXCEPT ![h3[e].next].prev = e]
        h5 == [h4 EXCEPT ![e].list = EvictList]
    IN  [elem |-> h5, len |-> l.len + 1]

\* e is the address of the new Element
insertValue(l, e, v, at) ==
    insert([l EXCEPT !.elem[e] = [ZeroElement EXCEPT !.Value = v]], e, at)

\* remove without its second assignment, e.next.prev = e.prev
removeHalfUnlinked(l, e) ==
    LET h1 == [l.elem EXCEPT ![l.elem[e].prev].next = l.elem[e].next]
        h3 == [h1 EXCEPT ![e].next = nil, ![e].prev = nil, ![e].list = NilList]
    IN  [elem |-> h3, len |-> l.len - 1]

remove(l, e) ==
    LET h1 == [l.elem EXCEPT ![l.elem[e].prev].next = l.elem[e].next]
        h2 == [h1 EXCEPT ![h1[e].next].prev = h1[e].prev]
        h3 == [h2 EXCEPT ![e].next = nil, ![e].prev = nil, ![e].list = NilList]
    IN  [elem |-> h3, len |-> l.len - 1]

move(l, e, at) ==
    IF e = at THEN l
    ELSE LET h1 == [l.elem EXCEPT ![l.elem[e].prev].next = l.elem[e].next]
             h2 == [h1 EXCEPT ![h1[e].next].prev = h1[e].prev]
             h3 == [h2 EXCEPT ![e].prev = at]
             h4 == [h3 EXCEPT ![e].next = h3[at].next]
             h5 == [h4 EXCEPT ![h4[e].prev].next = e]
             h6 == [h5 EXCEPT ![h5[e].next].prev = e]
         IN  [l EXCEPT !.elem = h6]

ListRemove(l, e) == IF l.elem[e].list = EvictList THEN remove(l, e) ELSE l

PushFront(l, e, v) == insertValue(lazyInit(l), e, v, root)

\* MoveToFront that moves nothing
MoveToFrontNever(l, e) == l

MoveToFront(l, e) ==
    IF l.elem[e].list # EvictList \/ l.elem[root].next = e THEN l
    ELSE move(l, e, root)

\* ------------------------------------------------------------- lru.go
\* k has an entry in c.items
Has(k) == items[k] # nil

\* len(c.items)
MapLen(m) == Cardinality({k \in KeySet : m[k] # nil})

\* the walk of Cache.keys: from Back() along Prev(), oldest first
RECURSIVE keysFrom(_, _, _)
keysFrom(l, e, fuel) ==
    IF e = nil \/ fuel = 0 THEN <<>>
    ELSE <<l.elem[e].Value.key>> \o keysFrom(l, Prev(l, e), fuel - 1)

keys(l) == keysFrom(l, Back(l), MaxNodes + 1)

\* expiry that already holds at the deadline itself
ExpiredAtDeadline(t, ent) == t >= ent.expiresAt

\* time.Now().After(expiresAt), read at clock value t
Expired(t, ent) == t > ent.expiresAt

\* the size check of line 121 off by one
SizeExceededLate(n) == size > 0 /\ n > size + 1

\* line 121: the size is exceeded by a map of n entries
SizeExceeded(n) == size > 0 /\ n > size

\* Elements no pointer leads to: the addresses a new Element may get
Fresh == {n \in Nodes : elem[n] = ZeroElement}

\* the address of the new Element for key k; addresses are only ever compared
\* for equality, so one free address stands for them all
NewElement(k) ==
    IF k \in Fresh THEN k ELSE CHOOSE n \in Fresh : \A m \in Fresh : n <= m

\* ------------------------------------------------- consistency of map and ring
\* the members of sequence q
Range(q) == {q[i] : i \in 1..Len(q)}

\* the Elements met walking next from root.next until the sentinel
RECURSIVE nextFrom(_, _, _)
nextFrom(l, e, fuel) ==
    IF e = root \/ e = nil \/ fuel = 0 THEN <<>>
    ELSE <<e>> \o nextFrom(l, l.elem[e].next, fuel - 1)

Ring(l) == nextFrom(l, l.elem[root].next, MaxNodes + 1)

\* the walk along next from Element e, reached from p after n Elements: every
\* Element met belongs to the list, is linked back to the one before it and is
\* the one the map holds for its key; the walk ends at the sentinel having met
\* as many Elements as the list counts and the map holds
RECURSIVE walk(_, _, _, _, _, _)
walk(m, l, e, p, n, fuel) ==
    IF e = root
    THEN l.elem[root].prev = p /\ l.len = n /\ MapLen(m) = n
    ELSE /\ e # nil
         /\ fuel > 0
         /\ l.elem[e].prev = p
         /\ l.elem[e].list = EvictList
         /\ l.elem[e].Value.key \in KeySet
         /\ m[l.elem[e].Value.key] = e
         /\ walk(m, l, l.elem[e].next, e, n + 1, fuel - 1)

\* c.items and c.evictList hold the same entries, and the ring is closed
Bijection(m, l) == walk(m, l, l.elem[root].next, root, 0, MaxNodes)

\* ------------------------------------------------------------- threads
NoRet == [ok |-> FALSE, key |-> ZeroKT, value |-> ZeroVT, n |-> 0, keys |-> <<>>,
          panic |-> FALSE]
NoFrame == [op |-> "", key |-> ZeroKT, value |-> ZeroVT, ttl |-> 0, size |-> 0,
            now |-> 0, e |-> nil, keys |-> <<>>, i |-> 0, n |-> 0,
            locked |-> FALSE, calls |-> <<>>, ret |-> NoRet]
NoSnap == [order |-> <<>>, ent |-> [k \in KeySet |-> ZeroEntry], len |-> 0,
           size |-> 0, consistent |-> TRUE]

\* what a call finds: Keys(), each key's entry, Len(), the capacity
Snapshot ==
    [order |-> keys(TheList),
     ent |-> [k \in KeySet |-> IF Has(k) THEN elem[items[k]].Value ELSE ZeroEntry],
     len |-> ListLen(TheList),
     size |-> size,
     consistent |-> Bijection(items, TheList)]

Frame(op, k, v, d) ==
    [NoFrame EXCEPT !.op = op, !.key = k, !.value = v, !.ttl = d, !.now = now,
                    !.locked = TRUE]

\* an unrecovered panic ends the process
Alive == \A t \in Threads : pc[t] # "panicked"

\* the return of a call that took no lock touches nothing shared: it is taken
\* before any other step
Running == Alive /\ \A t \in Threads : pc[t] = "ret" => frame[t].locked

\* a Lock that does not wait for the holder
LockNoWait == mutex' = TRUE

\* c.Lock()
Lock == mutex = FALSE /\ mutex' = TRUE

\* a caller enters a public method and takes the lock
Enter(t) == Lock /\ pc[t] = "idle" /\ t \in Callers /\ Running

\* ------------------------------------------------------------- NewLRU
\* a NewLRU that replaces a negative ttl only
NewLRUKeepsZeroTTL(sz, cb, d, pe) ==
    LET s == IF sz < 0 THEN 0 ELSE sz
        tl == IF d < 0 THEN noEvictionTTL ELSE d
        sweep == tl # noEvictionTTL /\ (s > 0 \/ pe > 0)
    IN  [size |-> s, ttl |-> tl, onEvicted |-> cb, sweep |-> sweep,
         purgeEvery |-> IF sweep /\ pe <= 0 THEN FiveMinutes ELSE pe]

NewLRU(sz, cb, d, pe) ==
    LET s == IF sz < 0 THEN 0 ELSE sz
        tl == IF d <= 0 THEN noEvictionTTL ELSE d
        sweep == tl # noEvictionTTL /\ (s > 0 \/ pe > 0)
    IN  [size |-> s, ttl |-> tl, onEvicted |-> cb, sweep |-> sweep,
         purgeEvery |-> IF sweep /\ pe <= 0 THEN FiveMinutes ELSE pe]

\* the cache and its goroutines as NewLRU(a[1], a[2], a[3], a[4]) leaves them
InitWith(a) ==
    LET c == NewLRU(a[1], a[2], a[3], a[4])
    IN  /\ size = c.size
        /\ ttl = c.ttl
        /\ purgeEvery = c.purgeEvery
        /\ onEvicted = c.onEvicted
        /\ done = FALSE
        /\ mutex = FALSE
        /\ items = [k \in KeySet |-> nil]
        /\ elem = NewList.elem
        /\ len = NewList.len
        /\ now = 0
        /\ pc = [t \in Threads |->
                    IF t = Sweeper THEN (IF c.sweep THEN "select" ELSE "none")
                    ELSE "idle"]
        /\ frame = [t \in Threads |-> NoFrame]
        /\ old = [t \in Threads |-> NoSnap]

Init == \E a \in NewArgs : InitWith(a)

config == <<size, ttl, purgeEvery, onEvicted>>

\* the callback called twice for one entry
evictedTwice(f, k, v) ==
    IF onEvicted THEN [f EXCEPT !.calls = Append(Append(f.calls, <<k, v>>), <<k, v>>)]
    ELSE f

\* if c.onEvicted != nil { c.onEvicted(k, v) }: the call is logged in frame f
evicted(f, k, v) ==
    IF onEvicted THEN [f EXCEPT !.calls = Append(f.calls, <<k, v>>)] ELSE f

\* the refresh of lines 110-111 without line 111
refreshValueOnly(l, e, v, x) == [l EXCEPT !.elem[e].Value.value = v]

\* lines 110-111: the entry of Element e gets value v and expiry x
refresh(l, e, v, x) ==
    [l EXCEPT !.elem[e].Value.value = v, !.elem[e].Value.expiresAt = x]

\* thread t's step leaves list l, map m and frame f, and goes to p
Step(t, l, m, f, p) ==
    /\ elem' = l.elem
    /\ len' = l.len
    /\ items' = m
    /\ frame' = [frame EXCEPT ![t] = f]
    /\ pc' = [pc EXCEPT ![t] = p]

\* the call of thread t starts from the cache as it is now
Found(t) == old' = [old EXCEPT ![t] = Snapshot]

\* removeElement, line 280: unlink e; lines 281-285 follow as the next step
removeElement(t, l, m, f, e) ==
    Step(t, ListRemove(l, e), m, [f EXCEPT !.e = e], "removeElement")

\* removeOldest; otherwise leaves frame f at p
removeOldest(t, l, m, f, p) ==
    IF Back(l) # nil THEN removeElement(t, l, m, f, Back(l))
    ELSE Step(t, l, m, f, p)

\* an add that takes the cache's ttl whatever ttl it is called with
addDefaultTTL(t, op, k, v, d) ==
    /\ Enter(t)
    /\ Found(t)
    /\ IF Has(k)
       THEN Step(t, refresh(MoveToFront(TheList, items[k]), items[k], v, now + ttl),
                 items, Frame(op, k, v, d), "ret")
       ELSE /\ Fresh # {}
            /\ LET e == NewElement(k)
                   ent == [key |-> k, value |-> v, expiresAt |-> now + ttl]
               IN  Step(t, PushFront(TheList, e, ent), items,
                        [Frame(op, k, v, d) EXCEPT !.e = e], "add")
    /\ UNCHANGED <<config, done, now>>

\* Cache.add, lines 103-117
add(t, op, k, v, d) ==
    /\ Enter(t)
    /\ Found(t)
    /\ IF Has(k)
       THEN Step(t, refresh(MoveToFront(TheList, items[k]), items[k], v, now + d),
                 items, Frame(op, k, v, d), "ret")
       ELSE /\ Fresh # {}
            /\ LET e == NewElement(k)
                   ent == [key |-> k, value |-> v, expiresAt |-> now + d]
               IN  Step(t, PushFront(TheList, e, ent), items,
                        [Frame(op, k, v, d) EXCEPT !.e = e], "add")
    /\ UNCHANGED <<config, done, now>>

Add(t, k, v) == add(t, "Add", k, v, ttl)

AddWithTTL(t, k, v, d) == add(t, "AddWithTTL", k, v, d)

\* Cache.add, lines 118-125
addInsert(t) ==
    /\ pc[t] = "add"
    /\ Running
    /\ LET f == frame[t]
           m == [items EXCEPT ![f.key] = f.e]
       IN  IF SizeExceeded(MapLen(m))
           THEN removeOldest(t, TheList, m, [f EXCEPT !.ret.ok = TRUE], "ret")
           ELSE Step(t, TheList, m, f, "ret")
    /\ UNCHANGED <<config, done, mutex, now, old>>

\* removeElement, lines 281-285, and the return into the caller
removeElementDone(t) ==
    /\ pc[t] = "removeElement"
    /\ Running
    /\ LET f == frame[t]
           kv == elem[f.e].Value
           m == [k \in KeySet |-> IF k = kv.key THEN nil ELSE items[k]]
           g == evicted(f, kv.key, kv.value)
       IN  CASE f.op \in {"Add", "AddWithTTL", "Remove"} ->
                    Step(t, TheList, m, [g EXCEPT !.ret.ok = TRUE], "ret")
             [] f.op = "RemoveOldest" ->
                    Step(t, TheList, m,
                         [g EXCEPT !.ret.key = kv.key, !.ret.value = kv.value,
                                   !.ret.ok = TRUE], "ret")
             [] f.op = "Resize" -> Step(t, TheList, m, g, "resize")
             [] OTHER -> Step(t, TheList, m, g, "deleteExpired")
    /\ UNCHANGED <<config, done, mutex, now, old>>

\* a Get that moves the entry to the front before it tests the expiry
GetTouchesExpired(t, k) ==
    /\ Enter(t)
    /\ Found(t)
    /\ LET f == Frame("Get", k, ZeroVT, 0)
       IN  IF Has(k)
           THEN Step(t, MoveToFront(TheList, items[k]), items,
                     IF Expired(now, elem[items[k]].Value) THEN f
                     ELSE [f EXCEPT !.ret.value = elem[items[k]].Value.value,
                                    !.ret.ok = TRUE], "ret")
           ELSE Step(t, TheList, items, f, "ret")
    /\ UNCHANGED <<config, done, now>>

Get(t, k) ==
    /\ Enter(t)
    /\ Found(t)
    /\ LET f == Frame("Get", k, ZeroVT, 0)
       IN  IF Has(k) /\ ~Expired(now, elem[items[k]].Value)
           THEN Step(t, MoveToFront(TheList, items[k]), items,
                     [f EXCEPT !.ret.value = elem[items[k]].Value.value,
                               !.ret.ok = TRUE], "ret")
           ELSE Step(t, TheList, items, f, "ret")
    /\ UNCHANGED <<config, done, now>>

Peek(t, k) ==
    /\ Enter(t)
    /\ Found(t)
    /\ LET f == Frame("Peek", k, ZeroVT, 0)
       IN  IF Has(k) /\ ~Expired(now, elem[items[k]].Value)
           THEN Step(t, TheList, items,
                     [f EXCEPT !.ret.value = elem[items[k]].Value.value,
                               !.ret.ok = TRUE], "ret")
           ELSE Step(t, TheList, items, f, "ret")
    /\ UNCHANGED <<config, done, now>>

GetOldest(t) ==
    /\ Enter(t)
    /\ Found(t)
    /\ LET f == Frame("GetOldest", ZeroKT, ZeroVT, 0)
           ent == Back(TheList)
       IN  IF ent # nil
           THEN Step(t, TheList, items,
                     [f EXCEPT !.ret.key = elem[ent].Value.key,
                               !.ret.value = elem[ent].Value.value,
                               !.ret.ok = TRUE], "ret")
           ELSE Step(t, TheList, items, f, "ret")
    /\ UNCHANGED <<config, done, now>>

Contains(t, k) ==
    /\ Enter(t)
    /\ Found(t)
    /\ Step(t, TheList, items,
            [Frame("Contains", k, ZeroVT, 0) EXCEPT !.ret.ok = Has(k)], "ret")
    /\ UNCHANGED <<config, done, now>>

\* a Remove that takes an expired entry for an absent one
RemoveUnlessExpired(t, k) ==
    /\ Enter(t)
    /\ Found(t)
    /\ LET f == Frame("Remove", k, ZeroVT, 0)
       IN  IF Has(k) /\ ~Expired(now, elem[items[k]].Value)
           THEN removeElement(t, TheList, items, f, items[k])
           ELSE Step(t, TheList, items, f, "ret")
    /\ UNCHANGED <<config, done, now>>

Remove(t, k) ==
    /\ Enter(t)
    /\ Found(t)
    /\ LET f == Frame("Remove", k, ZeroVT, 0)
       IN  IF Has(k) THEN removeElement(t, TheList, items, f, items[k])
           ELSE Step(t, TheList, items, f, "ret")
    /\ UNCHANGED <<config, done, now>>

RemoveOldest(t) ==
    /\ Enter(t)
    /\ Found(t)
    /\ removeOldest(t, TheList, items, Frame("RemoveOldest", ZeroKT, ZeroVT, 0), "ret")
    /\ UNCHANGED <<config, done, now>>

Keys(t) ==
    /\ Enter(t)
    /\ Found(t)
    /\ Step(t, TheList, items,
            [Frame("Keys", ZeroKT, ZeroVT, 0) EXCEPT !.ret.keys = keys(TheList)], "ret")
    /\ UNCHANGED <<config, done, now>>

CacheLen(t) ==
    /\ Enter(t)
    /\ Found(t)
    /\ Step(t, TheList, items,
            [Frame("Len", ZeroKT, ZeroVT, 0) EXCEPT !.ret.n = ListLen(TheList)], "ret")
    /\ UNCHANGED <<config, done, now>>

Purge(t) ==
    /\ Enter(t)
    /\ Found(t)
    /\ Step(t, TheList, items, Frame("Purge", ZeroKT, ZeroVT, 0), "purge")
    /\ UNCHANGED <<config, done, now>>

\* Purge, lines 213-218: one turn of the range over c.items, in any order
purgeItem(t) ==
    /\ pc[t] = "purge"
    /\ Running
    /\ \E k \in KeySet :
          /\ Has(k)
          /\ LET f == frame[t]
                 g == evicted(f, k, elem[items[k]].Value.value)
             IN  Step(t, TheList, [items EXCEPT ![k] = nil], g, "purge")
    /\ UNCHANGED <<config, done, mutex, now, old>>

\* a Purge that clears the map and leaves the list alone
purgeInitKeepsList(t) ==
    /\ pc[t] = "purge"
    /\ Running
    /\ \A k \in KeySet : ~Has(k)
    /\ Step(t, TheList, items, frame[t], "ret")
    /\ UNCHANGED <<config, done, mutex, now, old>>

\* Purge, line 219, after the range
purgeInit(t) ==
    /\ pc[t] = "purge"
    /\ Running
    /\ \A k \in KeySet : ~Has(k)
    /\ Step(t, ListInit(TheList), items, frame[t], "ret")
    /\ UNCHANGED <<config, done, mutex, now, old>>

DeleteExpired(t) ==
    /\ Enter(t)
    /\ Found(t)
    /\ Step(t, TheList, items,
            [Frame("DeleteExpired", ZeroKT, ZeroVT, 0) EXCEPT
                !.keys = keys(TheList), !.i = 1], "deleteExpired")
    /\ UNCHANGED <<config, done, now>>

\* a deleteExpired whose loop passes over every key and removes none
deleteExpiredKeepsAll(t) ==
    /\ pc[t] = "deleteExpired"
    /\ Running
    /\ LET f == frame[t]
       IN  IF f.i > Len(f.keys) THEN Step(t, TheList, items, f, "ret")
           ELSE Step(t, TheList, items, [f EXCEPT !.i = f.i + 1], "deleteExpired")
    /\ UNCHANGED <<config, done, mutex, now, old>>

\* a deleteExpired that leaves its loop after the first removal
deleteExpiredBreaks(t) ==
    /\ pc[t] = "deleteExpired"
    /\ Running
    /\ LET f == frame[t]
       IN  IF f.i > Len(f.keys) THEN Step(t, TheList, items, f, "ret")
           ELSE LET e == items[f.keys[f.i]]
                IN  IF Expired(now, elem[e].Value)
                    THEN removeElement(t, TheList, items,
                                       [f EXCEPT !.i = Len(f.keys) + 1], e)
                    ELSE Step(t, TheList, items, [f EXCEPT !.i = f.i + 1],
                              "deleteExpired")
    /\ UNCHANGED <<config, done, mutex, now, old>>

\* deleteExpired, lines 290-295: one turn of the range over c.keys()
deleteExpired(t) ==
    /\ pc[t] = "deleteExpired"
    /\ Running
    /\ LET f == frame[t]
       IN  IF f.i > Len(f.keys) THEN Step(t, TheList, items, f, "ret")
           ELSE LET e == items[f.keys[f.i]]
                    g == [f EXCEPT !.i = f.i + 1]
                IN  IF Expired(now, elem[e].Value)
                    THEN removeElement(t, TheList, items, g, e)
                    ELSE Step(t, TheList, items, g, "deleteExpired")
    /\ UNCHANGED <<config, done, mutex, now, old>>

\* Resize, lines 238-246; the call with n <= 0 touches nothing shared, so its
\* place among the other threads' steps does not matter: it is taken while no
\* call holds the lock
Resize(t, n) ==
    /\ IF n <= 0
       THEN /\ mutex = FALSE
            /\ pc[t] = "idle"
            /\ t \in Callers
            /\ Running
            /\ Step(t, TheList, items,
                    [Frame("Resize", ZeroKT, ZeroVT, 0) EXCEPT
                        !.size = n, !.locked = FALSE], "ret")
            /\ UNCHANGED mutex
       ELSE /\ Enter(t)
            /\ LET diff == ListLen(TheList) - n
               IN  Step(t, TheList, items,
                        [Frame("Resize", ZeroKT, ZeroVT, 0) EXCEPT
                            !.size = n, !.n = IF diff < 0 THEN 0 ELSE diff],
                        "resize")
    /\ Found(t)
    /\ UNCHANGED <<config, done, now>>

\* a Resize whose loop runs once more than diff
resizeNextOneMore(t) ==
    /\ pc[t] = "resize"
    /\ Running
    /\ LET f == frame[t]
       IN  IF f.i <= f.n
           THEN /\ removeOldest(t, TheList, items, [f EXCEPT !.i = f.i + 1], "resize")
                /\ UNCHANGED size
           ELSE /\ size' = f.size
                /\ Step(t, TheList, items, [f EXCEPT !.ret.n = f.n], "ret")
    /\ UNCHANGED <<ttl, purgeEvery, onEvicted, done, mutex, now, old>>

\* Resize, lines 247-251: one turn of the loop, or the end
resizeNext(t) ==
    /\ pc[t] = "resize"
    /\ Running
    /\ LET f == frame[t]
       IN  IF f.i < f.n
           THEN /\ removeOldest(t, TheList, items, [f EXCEPT !.i = f.i + 1], "resize")
                /\ UNCHANGED size
           ELSE /\ size' = f.size
                /\ Step(t, TheList, items, [f EXCEPT !.ret.n = f.n], "ret")
    /\ UNCHANGED <<ttl, purgeEvery, onEvicted, done, mutex, now, old>>

\* a Close that closes the channel only if it is open
CloseGuarded(t) ==
    /\ Enter(t)
    /\ Found(t)
    /\ done' = TRUE
    /\ Step(t, TheList, items, Frame("Close", ZeroKT, ZeroVT, 0), "ret")
    /\ UNCHANGED <<config, now>>

\* close(c.done) panics on a closed channel
Close(t) ==
    /\ Enter(t)
    /\ Found(t)
    /\ done' = TRUE
    /\ Step(t, TheList, items,
            [Frame("Close", ZeroKT, ZeroVT, 0) EXCEPT !.ret.panic = done], "ret")
    /\ UNCHANGED <<config, now>>

\* the Elements a pointer leads to once thread t has returned
Live(t) ==
    LET w == Ring(TheList)
    IN  {items[k] : k \in KeySet} \cup {frame[u].e : u \in Threads \ {t}}
          \cup {w[i] : i \in 1..Len(w)}

\* the deferred c.Unlock() and the return; the collector reclaims what is dropped
Return(t) ==
    /\ pc[t] = "ret"
    /\ Alive
    /\ mutex' = IF frame[t].locked THEN FALSE ELSE mutex
    /\ elem' = IF frame[t].locked
               THEN LET live == Live(t)
                    IN  [n \in DOMAIN elem |->
                            IF n = root \/ n \in live THEN elem[n] ELSE ZeroElement]
               ELSE elem
    /\ pc' = [pc EXCEPT ![t] = IF frame[t].ret.panic THEN "panicked"
                               ELSE IF t = Sweeper THEN "select" ELSE "idle"]
    /\ frame' = [frame EXCEPT ![t] = NoFrame]
    /\ old' = [old EXCEPT ![t] = NoSnap]
    /\ UNCHANGED <<config, done, items, len, now>>

\* ------------------------------------------------------- the sweep goroutine
\* a select without the case <-done
SweepDoneNever == FALSE /\ UNCHANGED vars

\* select, case <-done
SweepDone ==
    /\ Running
    /\ pc[Sweeper] = "select"
    /\ done
    /\ pc' = [pc EXCEPT ![Sweeper] = "exit"]
    /\ UNCHANGED <<config, done, mutex, items, elem, len, now, frame, old>>

\* select, case <-ticker.C: the ticker delivers a tick
SweepTick ==
    /\ Running
    /\ pc[Sweeper] = "select"
    /\ pc' = [pc EXCEPT ![Sweeper] = "tick"]
    /\ UNCHANGED <<config, done, mutex, items, elem, len, now, frame, old>>

\* res.Lock() and the call of res.deleteExpired()
SweepLock ==
    /\ Running
    /\ pc[Sweeper] = "tick"
    /\ Lock
    /\ Found(Sweeper)
    /\ Step(Sweeper, TheList, items,
            [Frame("sweep", ZeroKT, ZeroVT, 0) EXCEPT
                !.keys = keys(TheList), !.i = 1], "deleteExpired")
    /\ UNCHANGED <<config, done, now>>

\* the clock advances
Tick ==
    /\ Running
    /\ now < MaxTime
    /\ now' = now + 1
    /\ UNCHANGED <<config, done, mutex, items, elem, len, pc, frame, old>>

Next ==
    \/ \E t \in Callers, a \in AddArgs : Add(t, a[1], a[2])
    \/ \E t \in Callers, a \in AddArgs, d \in TTLArgs : AddWithTTL(t, a[1], a[2], d)
    \/ \E t \in Callers : addInsert(t)
    \/ \E t \in Threads : removeElementDone(t)
    \/ \E t \in Callers, k \in KeySet : Get(t, k)
    \/ \E t \in Callers, k \in KeySet : Peek(t, k)
    \/ \E t \in Callers : GetOldest(t)
    \/ \E t \in Callers, k \in KeySet : Contains(t, k)
    \/ \E t \in Callers, k \in KeySet : Remove(t, k)
    \/ \E t \in Callers : RemoveOldest(t)
    \/ \E t \in Callers : Keys(t)
    \/ \E t \in Callers : CacheLen(t)
    \/ \E t \in Callers : Purge(t)
    \/ \E t \in Callers : purgeItem(t)
    \/ \E t \in Callers : purgeInit(t)
    \/ \E t \in Callers : DeleteExpired(t)
    \/ \E t \in Threads : deleteExpired(t)
    \/ \E t \in Callers, n \in ResizeArgs : Resize(t, n)
    \/ \E t \in Callers : resizeNext(t)
    \/ \E t \in Callers : Close(t)
    \/ \E t \in Threads : Return(t)
    \/ SweepDone
    \/ SweepTick
    \/ SweepLock
    \/ Tick

Spec == Init /\ [][Next]_vars


\* The goroutines run: a thread inside a method finishes it, the ticker keeps
\* ticking, the mutex hands the lock to a waiting sweep (sync.Mutex leaves
\* starvation to no waiter), and select picks each ready case again and again.
Fairness ==
    /\ \A t \in Threads :
          /\ WF_vars(addInsert(t))
          /\ WF_vars(removeElementDone(t))
          /\ WF_vars(purgeItem(t))
          /\ WF_vars(purgeInit(t))
          /\ WF_vars(deleteExpired(t))
          /\ WF_vars(resizeNext(t))
          /\ WF_vars(Return(t))
    /\ SF_vars(SweepTick)
    /\ SF_vars(SweepLock)
    /\ SF_vars(SweepDone)

\* NewLRU started the sweep goroutine (line 70)
SweepInit == Init /\ pc[Sweeper] = "select"

\* a cache whose construction started the sweep goroutine, under fair scheduling
FairSpec == SweepInit /\ [][Next]_vars /\ Fairness

\* ------------------------------------------- one caller, every construction
\* the arguments of NewLRU when one goroutine uses the cache: every sign of
\* size, ttl and purgeEvery, with a callback
SeqNewArgs ==
    {<<s, TRUE, d, pe>> : s \in {-1, 0, 1}, d \in {-1, 0, 1}, pe \in {-1, 0, 1}}
\* the size arguments that caller passes to Resize
SeqResizeArgs == {-1, 0, 1, 3}
SeqCaller == "c1"

SeqInit == \E a \in SeqNewArgs : InitWith(a)

SeqNext ==
    \/ \E a \in AddArgs : Add(SeqCaller, a[1], a[2])
    \/ \E a \in AddArgs, d \in TTLArgs : AddWithTTL(SeqCaller, a[1], a[2], d)
    \/ addInsert(SeqCaller)
    \/ \E t \in Threads : removeElementDone(t)
    \/ \E k \in KeySet : Get(SeqCaller, k)
    \/ DeleteExpired(SeqCaller)
    \/ \E t \in Threads : deleteExpired(t)
    \/ \E n \in SeqResizeArgs : Resize(SeqCaller, n)
    \/ resizeNext(SeqCaller)
    \/ \E t \in Threads : Return(t)
    \/ SweepTick
    \/ SweepLock
    \/ Tick

\* one goroutine uses a cache built with any of the arguments
SeqSpec == SeqInit /\ [][SeqNext]_vars

\* --------------------------------------------- the list and stale handles
\* A client of list.go works on the list l (a new cache's evictList) and keeps
\* the handle of every Element it got: members of l, Elements it removed,
\* Elements l.Init() dropped, and Elements of another list.
OtherList == "other"

\* the handles the client holds
Handles == {n \in Nodes : elem[n] # ZeroElement}

\* the Elements of l: those met from l.Front() along Next()
Members(l) == Range(Ring(l))

\* the list is left as l, and the client notes the operation and its handle
ListStep(l, op, e) ==
    /\ elem' = l.elem
    /\ len' = l.len
    /\ frame' = [frame EXCEPT ![SeqCaller] = [NoFrame EXCEPT !.op = op, !.e = e]]
    /\ UNCHANGED <<config, done, mutex, items, now, pc, old>>

\* e.prev.next and e.next.prev of remove and move dereference a nil pointer
NilDeref(e) ==
    elem[e].list = EvictList /\ (elem[e].prev = nil \/ elem[e].next = nil)

\* the nil dereference panics
ListPanic(op, e) ==
    /\ pc' = [pc EXCEPT ![SeqCaller] = "panicked"]
    /\ frame' = [frame EXCEPT ![SeqCaller] = [NoFrame EXCEPT !.op = op, !.e = e]]
    /\ UNCHANGED <<config, done, mutex, items, elem, len, now, old>>

\* l.PushFront(v), v an entry of key k
ListPushFront(k) ==
    /\ Alive
    /\ Fresh # {}
    /\ LET e == NewElement(k)
           v == [key |-> k, value |-> "a", expiresAt |-> 0]
       IN  ListStep(PushFront(TheList, e, v), "PushFront", e)

\* other.PushFront(v) on another list: the Element's links lead into that
\* list, where no operation of l follows them
ListPushOther(k) ==
    /\ Alive
    /\ Fresh # {}
    /\ LET e == NewElement(k)
           v == [key |-> k, value |-> "a", expiresAt |-> 0]
       IN  ListStep([TheList EXCEPT
                        !.elem[e] = [ZeroElement EXCEPT !.list = OtherList, !.Value = v]],
                    "other.PushFront", e)

\* l.Remove(e) on a handle the client holds
ListRemoveHandle(e) ==
    /\ Alive
    /\ e \in Handles
    /\ IF NilDeref(e) THEN ListPanic("Remove", e)
       ELSE ListStep(ListRemove(TheList, e), "Remove", e)

\* l.MoveToFront(e) on a handle the client holds
ListMoveToFront(e) ==
    /\ Alive
    /\ e \in Handles
    /\ IF NilDeref(e) /\ elem[root].next # e THEN ListPanic("MoveToFront", e)
       ELSE ListStep(MoveToFront(TheList, e), "MoveToFront", e)

\* l.Init(), as Purge calls it
ListReset ==
    /\ Alive
    /\ ListStep(ListInit(TheList), "Init", nil)

ListNext ==
    \/ \E k \in KeySet : ListPushFront(k)
    \/ \E k \in KeySet : ListPushOther(k)
    \/ \E e \in Nodes : ListRemoveHandle(e)
    \/ \E e \in Nodes : ListMoveToFront(e)
    \/ ListReset

ListSpecInit == InitWith(<<0, FALSE, 0, 0>>)

\* the list under a client that uses every handle it holds
ListSpec == ListSpecInit /\ [][ListNext]_vars

\* ------------------------------------------------------------- claims
\* threads whose call has computed its result and is about to return
AtRet(t) == pc[t] = "ret"
IsAdd(t) == frame[t].op \in {"Add", "AddWithTTL"}
\* the keys the call of t found in the cache, and the keys there now
OldKeys(t) == {k \in KeySet : old[t].ent[k].key # ZeroKT}
NowKeys == {k \in KeySet : Has(k)}
\* sequence q without the members of S
Without(q, S) == SelectSeq(q, LAMBDA x : x \notin S)

\* C1: whenever the lock is free, the map's keys are the keys on the ring, each
\* on one Element which the map points to, the ring is closed, and the stored
\* count equals the map size and the number of Elements on the ring
C1_Bijection == mutex = FALSE => Bijection(items, TheList)

\* a full cache, lock free, after entries were added, touched and removed
C1_Witness ==
    /\ mutex = FALSE
    /\ keys(TheList) = <<2, 3, 1>>
    /\ done

\* C2: when Add or AddWithTTL returns on a cache with a positive capacity, the
\* list and the map hold at most capacity entries
C2_Capacity ==
    \A t \in Callers :
        AtRet(t) /\ IsAdd(t) /\ size > 0 =>
            ListLen(TheList) <= size /\ MapLen(items) <= size

\* an Add that evicted, on a cache built unlimited and resized to 1
C2_Witness ==
    \E t \in Callers :
        /\ AtRet(t) /\ IsAdd(t) /\ frame[t].ret.ok
        /\ ~onEvicted /\ size = 1 /\ ListLen(TheList) = 1

\* C3: when a call returns, Keys() is the order the call found, without the
\* keys that left, with the call's key moved to the newest end exactly when the
\* call is an Add/AddWithTTL or a Get that found the key; and the keys an Add,
\* RemoveOldest or Resize removes are the oldest of the order it found
C3_LRUOrder ==
    \A t \in Threads :
        AtRet(t) =>
            LET o == old[t].order
                f == frame[t]
                cur == keys(TheList)
                gone == Range(o) \ Range(cur)
                touch == IsAdd(t) \/ (f.op = "Get" /\ f.ret.ok)
            IN  /\ cur = IF touch THEN Without(o, gone \cup {f.key}) \o <<f.key>>
                         ELSE Without(o, gone)
                /\ f.op \in {"Add", "AddWithTTL", "RemoveOldest", "Resize"} =>
                      \E n \in 0..Len(o) : gone = {o[i] : i \in 1..n}

\* capacity 2, order <<2, 1>> (1 was touched after 2), Add 3 evicted 2
C3_Witness ==
    \E t \in Callers :
        /\ AtRet(t) /\ frame[t].op = "Add" /\ frame[t].key = 3
        /\ old[t].size = 2 /\ old[t].order = <<2, 1>>
        /\ keys(TheList) = <<1, 3>>

\* C4: the callback calls of a call are, once each, the entries the call found
\* and that are no longer in the map, with the value the call found on them;
\* when the call returns every entry that left has its call; the values of the
\* entries that stay change only by an Add on their key; without a callback
\* nothing is called
C4_Callbacks ==
    \A t \in Threads :
        pc[t] \notin {"idle", "select", "tick", "none", "exit", "panicked"} =>
            LET c == frame[t].calls
                gone == OldKeys(t) \ NowKeys
            IN  /\ ~onEvicted => c = <<>>
                /\ \A i \in 1..Len(c) :
                      /\ c[i][1] \in gone
                      /\ c[i][2] = old[t].ent[c[i][1]].value
                      /\ \A j \in 1..Len(c) : c[j][1] = c[i][1] => i = j
                /\ AtRet(t) /\ onEvicted => \A k \in gone : \E i \in 1..Len(c) : c[i][1] = k
                /\ AtRet(t) =>
                      \A k \in OldKeys(t) \cap NowKeys :
                          elem[items[k]].Value.value =
                              IF IsAdd(t) /\ frame[t].key = k THEN frame[t].value
                              ELSE old[t].ent[k].value

\* a Purge of two entries, one of them with its second value, called twice
C4_Witness ==
    \E t \in Callers :
        /\ AtRet(t) /\ frame[t].op = "Purge"
        /\ Len(frame[t].calls) = 2
        /\ \E i \in 1..2 : frame[t].calls[i] = <<1, "b">>

\* C5: Add/AddWithTTL on a key in the map returns false, removes nothing, calls
\* nothing, keeps Len(), moves the key to the newest end, gives it the new value
\* and the expiry now + ttl, and leaves the other entries and their order alone
C5_Refresh ==
    \A t \in Callers :
        AtRet(t) /\ IsAdd(t) /\ frame[t].key \in OldKeys(t) =>
            LET f == frame[t]
                o == old[t].order
            IN  /\ f.ret.ok = FALSE
                /\ f.calls = <<>>
                /\ ListLen(TheList) = old[t].len
                /\ NowKeys = OldKeys(t)
                /\ keys(TheList) = Without(o, {f.key}) \o <<f.key>>
                /\ elem[items[f.key]].Value =
                      [key |-> f.key, value |-> f.value, expiresAt |-> f.now + f.ttl]
                /\ \A k \in OldKeys(t) \ {f.key} : elem[items[k]].Value = old[t].ent[k]

\* an expired, oldest entry with value "a" refreshed with value "b"
C5_Witness ==
    \E t \in Callers :
        /\ AtRet(t) /\ IsAdd(t) /\ frame[t].key = 1 /\ frame[t].value = "b"
        /\ Len(old[t].order) = 2 /\ old[t].order[1] = 1
        /\ old[t].ent[1].value = "a"
        /\ old[t].ent[1].expiresAt < frame[t].now

\* C6: Get and Peek on a key in the map find it exactly when the clock they
\* read is not past its expiresAt, and then return its value; an expired entry
\* stays in the map; Contains on a key in the map returns true whatever its
\* expiry, and Len() and Keys() count every entry in the map
C6_Expiry ==
    \A t \in Callers :
        AtRet(t) =>
            LET f == frame[t]
                ent == old[t].ent[f.key]
            IN  /\ f.op \in {"Get", "Peek"} /\ f.key \in OldKeys(t) =>
                      /\ f.ret.ok = ~(f.now > ent.expiresAt)
                      /\ f.ret.value = IF f.ret.ok THEN ent.value ELSE ZeroVT
                      /\ Has(f.key)
                /\ f.op = "Contains" /\ f.key \in OldKeys(t) => f.ret.ok
                /\ f.op = "Len" => f.ret.n = Cardinality(OldKeys(t))
                /\ f.op = "Keys" => Range(f.ret.keys) = OldKeys(t)

\* Contains finds a key whose entry expired
C6_Witness ==
    \E t \in Callers :
        /\ AtRet(t) /\ frame[t].op = "Contains" /\ frame[t].ret.ok
        /\ frame[t].now > old[t].ent[frame[t].key].expiresAt

\* C7: Add/AddWithTTL returns true exactly when the key was not in the map and
\* the capacity is positive and exceeded by the insert; then the one entry that
\* left is the oldest the call found, not the key added; otherwise no entry
\* left; in both cases the key added is in the map with the value added
C7_AddResult ==
    \A t \in Callers :
        AtRet(t) /\ IsAdd(t) =>
            LET f == frame[t]
                o == old[t].order
                over == /\ f.key \notin OldKeys(t)
                        /\ old[t].size > 0
                        /\ old[t].len + 1 > old[t].size
            IN  /\ f.ret.ok = over
                /\ over => /\ Len(o) > 0
                           /\ o[1] # f.key
                           /\ NowKeys = (OldKeys(t) \cup {f.key}) \ {o[1]}
                /\ ~over => NowKeys = OldKeys(t) \cup {f.key}
                /\ Has(f.key)
                /\ elem[items[f.key]].Value.value = f.value

\* a full cache of capacity 2 with order <<1, 2>>: Add 3 returned true, 1 left
C7_Witness ==
    \E t \in Callers :
        /\ AtRet(t) /\ frame[t].op = "Add" /\ frame[t].key = 3 /\ frame[t].ret.ok
        /\ old[t].size = 2 /\ old[t].order = <<1, 2>>
        /\ NowKeys = {2, 3}

\* a thread is inside a method, between its Lock and its Unlock
Inside(t) ==
    /\ pc[t] \notin {"idle", "select", "tick", "none", "exit", "panicked"}
    /\ frame[t].locked

\* a step changed the map, the list, the capacity or the callback log
Touched ==
    \/ items' # items
    \/ elem' # elem
    \/ len' # len
    \/ size' # size
    \/ \E t \in Threads : frame'[t].calls # frame[t].calls /\ frame'[t].calls # <<>>

\* C8: at most one thread is inside the cache, and the lock is held exactly
\* then; the state a method or a sweep finds when it gets the lock has map and
\* list in agreement; and every step that changes the map, the list, the
\* capacity or the callback log is taken while one thread, and no other, holds
\* the lock or takes it in that step
C8_Serialized ==
    /\ [](/\ Cardinality({t \in Threads : Inside(t)}) <= 1
          /\ mutex <=> \E t \in Threads : Inside(t)
          /\ \A t \in Threads : Inside(t) => old[t].consistent)
    /\ [][Touched =>
            \E t \in Threads :
                /\ (mutex /\ Inside(t)) \/ (~mutex /\ mutex' /\ Inside(t)')
                /\ \A u \in Threads \ {t} : ~Inside(u) /\ ~Inside(u)']_vars

\* a caller is between pushing the new Element and writing the map, so map and
\* list disagree, while the sweep waits for the lock
C8_Witness ==
    /\ pc["c1"] = "add"
    /\ pc[Sweeper] = "tick"
    /\ pc["c2"] = "idle"
    /\ ~Bijection(items, TheList)

\* the entry of key k is in the map and the clock is past its expiresAt
ExpiredIn(k) == Has(k) /\ Expired(now, elem[items[k]].Value)

\* the sweep goroutine has returned, or the process has ended
SweepGone == pc[Sweeper] = "exit" \/ ~Alive

\* C9: with the sweep running and the cache not closed, an entry whose
\* expiresAt has passed is eventually out of the map, unless it is refreshed
\* to an expiry that has not passed or the cache is closed
C9_SweepReclaims ==
    \A k \in KeySet :
        (ExpiredIn(k) /\ ~done) ~> (~ExpiredIn(k) \/ done)

\* the sweep is removing the expired entry of key 1 while the callers are idle
C9_Witness ==
    /\ pc[Sweeper] = "removeElement"
    /\ frame[Sweeper].e = items[1]
    /\ Expired(now, elem[items[1]].Value)
    /\ \A t \in Callers : pc[t] = "idle"
    /\ ~done

\* C10 as claimed: after Close the sweep goroutine eventually returns, having
\* returned it stays so, and once Close has returned it makes no further
\* deleteExpired pass
C10_NoPassAfterClose ==
    /\ done ~> SweepGone
    /\ [][pc[Sweeper] = "exit" => pc'[Sweeper] = "exit"]_vars
    /\ [](done /\ (\A t \in Callers : frame[t].op # "Close") => ~Inside(Sweeper))

\* C10 amended: after Close the sweep goroutine eventually returns; having
\* returned it stays so, never holds the lock and changes nothing; a pass it
\* makes after Close has returned is one it started from a tick
C10_CloseStopsSweep ==
    /\ done ~> SweepGone
    /\ [][pc[Sweeper] = "exit" =>
            /\ pc'[Sweeper] = "exit"
            /\ ~Inside(Sweeper)'
            /\ frame'[Sweeper] = NoFrame]_vars
    /\ [][done /\ ~Inside(Sweeper) /\ Inside(Sweeper)' => pc[Sweeper] = "tick"]_vars

\* the sweep has returned after Close and a caller goes on using the cache
C10_Witness ==
    /\ pc[Sweeper] = "exit"
    /\ done
    /\ \E t \in Callers : AtRet(t) /\ IsAdd(t) /\ frame[t].ret.ok
\* C11: Resize(n) with n <= 0 returns 0 and changes neither the entries nor the
\* capacity; Resize(n) with n > 0 on m entries removes the max(m - n, 0) oldest
\* of the order it found, calls the callback for each of them oldest first with
\* the value found, returns that count, leaves the other entries and their
\* order alone and stores n as the capacity, so that Len() <= n
C11_Resize ==
    \A t \in Callers :
        AtRet(t) /\ frame[t].op = "Resize" =>
            LET f == frame[t]
                o == old[t].order
                m == old[t].len
                d == IF f.size <= 0 \/ m - f.size < 0 THEN 0 ELSE m - f.size
            IN  /\ f.ret.n = d
                /\ keys(TheList) = SubSeq(o, d + 1, Len(o))
                /\ NowKeys = {o[i] : i \in (d + 1)..Len(o)}
                /\ \A k \in NowKeys : elem[items[k]].Value = old[t].ent[k]
                /\ f.calls = IF onEvicted
                             THEN [i \in 1..d |-> <<o[i], old[t].ent[o[i]].value>>]
                             ELSE <<>>
                /\ size = IF f.size <= 0 THEN old[t].size ELSE f.size
                /\ ListLen(TheList) = m - d
                /\ f.size > 0 => ListLen(TheList) <= f.size

\* Resize(1) on the order <<2, 3, 1>> removed 2 and then 3 and returned 2
C11_Witness ==
    \E t \in Callers :
        /\ AtRet(t) /\ frame[t].op = "Resize" /\ frame[t].size = 1
        /\ old[t].order = <<2, 3, 1>>
        /\ frame[t].ret.n = 2
        /\ frame[t].calls = << <<2, "a">>, <<3, "a">> >>
        /\ keys(TheList) = <<1>>
\* the expiresAt of the entry of key k
ExpiresAt(k) == elem[items[k]].Value.expiresAt

\* C12: when Add returns, its key's expiresAt is the clock the call read plus
\* the cache's normalized ttl, and when AddWithTTL returns, the clock plus the
\* ttl it was called with, zero included; at every return the other entries,
\* and every entry when the call is no Add, have the expiresAt the call found;
\* and no step but an Add or AddWithTTL on its key changes an entry's expiresAt
C12_TTL ==
    /\ [](\A t \in Threads :
            AtRet(t) =>
                LET f == frame[t]
                IN  /\ f.op = "Add" => ExpiresAt(f.key) = f.now + ttl
                    /\ f.op = "AddWithTTL" => ExpiresAt(f.key) = f.now + f.ttl
                    /\ \A k \in (OldKeys(t) \cap NowKeys) \ (IF IsAdd(t) THEN {f.key} ELSE {}) :
                          ExpiresAt(k) = old[t].ent[k].expiresAt)
    /\ [][\A k \in KeySet :
            Has(k) /\ Has(k)' /\ ExpiresAt(k)' # ExpiresAt(k) =>
                \E t \in Callers :
                    /\ pc[t] = "idle" /\ pc'[t] = "ret"
                    /\ IsAdd(t)' /\ frame'[t].key = k]_vars

\* ttl 1: key 1, added by Add at time 0 and expiring at 1, is given ttl 0 by
\* AddWithTTL at time 0 and expires at 0, while key 2 keeps its expiry 1
C12_Witness ==
    \E t \in Callers :
        /\ AtRet(t) /\ frame[t].op = "AddWithTTL" /\ frame[t].key = 1
        /\ ttl = 1 /\ frame[t].now = 0
        /\ old[t].ent[1].expiresAt = 1
        /\ ExpiresAt(1) = 0
        /\ Has(2) /\ ExpiresAt(2) = 1
\* C13: when Purge returns, the map is empty, Keys() is empty, Len() is 0 and
\* the list is the ring of a new list; with a callback, each entry Purge found
\* was called once with its value, in any order, and nothing else was called,
\* so that an empty cache is left as found with no call; the capacity is the
\* one Purge found, and no step of a Purge changes capacity, ttl, purgeEvery
\* or the callback; once Purge has returned, map and list are those of a new
\* cache, which is what the next Add starts from
C13_Purge ==
    /\ [](\A t \in Callers :
            AtRet(t) /\ frame[t].op = "Purge" =>
                LET c == frame[t].calls
                IN  /\ NowKeys = {}
                    /\ keys(TheList) = <<>>
                    /\ ListLen(TheList) = 0
                    /\ elem[root] = NewList.elem[root]
                    /\ Bijection(items, TheList)
                    /\ size = old[t].size
                    /\ Len(c) = IF onEvicted THEN Cardinality(OldKeys(t)) ELSE 0
                    /\ onEvicted =>
                          \A k \in OldKeys(t) :
                              \E i \in 1..Len(c) : c[i] = <<k, old[t].ent[k].value>>)
    /\ [][(\E t \in Callers : frame'[t].op = "Purge") => config' = config]_vars
    /\ [][\A t \in Callers :
            AtRet(t) /\ frame[t].op = "Purge" /\ pc'[t] = "idle" =>
                /\ items' = [k \in KeySet |-> nil]
                /\ elem' = NewList.elem
                /\ len' = NewList.len]_vars

\* a Purge of the order <<2, 1>> called the callback for 1 and then for 2
C13_Witness ==
    \E t \in Callers :
        /\ AtRet(t) /\ frame[t].op = "Purge"
        /\ old[t].order = <<2, 1>>
        /\ frame[t].calls = << <<1, "a">>, <<2, "a">> >>
        /\ now = 1
\* C14: in the cache NewLRU(size, onEvict, ttl, purgeEvery) returns, the
\* capacity is 0 for a negative size and the size otherwise, the ttl is
\* noEvictionTTL for a ttl <= 0 and the ttl otherwise, the sweep goroutine runs
\* exactly when that ttl is not noEvictionTTL and the capacity or purgeEvery is
\* positive, and then purgeEvery is five minutes where it was given <= 0; at
\* all times, a cache of capacity 0 evicts nothing on Add, a cache of ttl
\* noEvictionTTL has no sweep goroutine, and what Add puts into it expires
\* noEvictionTTL after the Add, later than any clock reached
C14_Construction ==
    /\ \A a \in SeqNewArgs :
          InitWith(a) =>
              LET finite == a[3] > 0
                  started == pc[Sweeper] = "select"
              IN  /\ size = IF a[1] < 0 THEN 0 ELSE a[1]
                  /\ ttl = IF finite THEN a[3] ELSE noEvictionTTL
                  /\ noEvictionTTL > MaxTime
                  /\ started <=> (finite /\ (a[1] > 0 \/ a[4] > 0))
                  /\ ~started => pc[Sweeper] = "none" /\ purgeEvery = a[4]
                  /\ started => purgeEvery = IF a[4] <= 0 THEN FiveMinutes ELSE a[4]
                  /\ onEvicted = a[2]
    /\ ttl = noEvictionTTL => pc[Sweeper] = "none"
    /\ \A t \in Callers :
          AtRet(t) /\ frame[t].op = "Add" =>
              /\ size = 0 => /\ ~frame[t].ret.ok
                             /\ frame[t].calls = <<>>
                             /\ NowKeys = OldKeys(t) \cup {frame[t].key}
              /\ ttl = noEvictionTTL =>
                    /\ ExpiresAt(frame[t].key) = frame[t].now + noEvictionTTL
                    /\ ~Expired(MaxTime, elem[items[frame[t].key]].Value)

\* a cache built with a ttl and without a purgeEvery: the sweep, started with
\* purgeEvery five minutes, is removing an expired entry
C14_Witness ==
    /\ purgeEvery = FiveMinutes
    /\ ttl = 1
    /\ pc[Sweeper] = "removeElement"
    /\ Expired(now, elem[frame[Sweeper].e].Value)
\* the entries of the keys in S are the ones the call of t found
Kept(t, S) == \A k \in S : Has(k) /\ elem[items[k]].Value = old[t].ent[k]

\* the callback log of one call, for key k with the value the call of t found
OneCall(t, k) == IF onEvicted THEN << <<k, old[t].ent[k].value>> >> ELSE <<>>

\* C15: Remove(key) returns true exactly when the key is in the map, expired
\* or not; then that entry alone leaves map and list and the callback is
\* called once, for it; for a key not in the map nothing is called and nothing
\* changes. RemoveOldest on a cache with entries returns the key and value of
\* the oldest entry, expired or not, with ok, that entry alone leaves and the
\* callback is called once, for it; on an empty cache it returns zero values
\* and not ok, calls nothing and changes nothing
C15_Remove ==
    \A t \in Callers :
        AtRet(t) =>
            LET f == frame[t]
                o == old[t].order
            IN  /\ f.op = "Remove" =>
                      /\ f.ret.ok = (f.key \in OldKeys(t))
                      /\ NowKeys = OldKeys(t) \ {f.key}
                      /\ keys(TheList) = Without(o, {f.key})
                      /\ ListLen(TheList) = Cardinality(NowKeys)
                      /\ Kept(t, NowKeys)
                      /\ f.calls = IF f.ret.ok THEN OneCall(t, f.key) ELSE <<>>
                /\ f.op = "RemoveOldest" =>
                      /\ f.ret.ok = (o # <<>>)
                      /\ keys(TheList) = IF o = <<>> THEN <<>> ELSE Tail(o)
                      /\ NowKeys = Range(keys(TheList))
                      /\ ListLen(TheList) = Cardinality(NowKeys)
                      /\ Kept(t, NowKeys)
                      /\ f.ret.key = IF f.ret.ok THEN o[1] ELSE ZeroKT
                      /\ f.ret.value = IF f.ret.ok THEN old[t].ent[o[1]].value ELSE ZeroVT
                      /\ f.calls = IF f.ret.ok THEN OneCall(t, o[1]) ELSE <<>>

\* Remove(1) returned true for the expired, newest entry of key 1, whose
\* callback got the value "b", and key 2 stayed
C15_Witness ==
    \E t \in Callers :
        /\ AtRet(t) /\ frame[t].op = "Remove" /\ frame[t].key = 1 /\ frame[t].ret.ok
        /\ frame[t].now > old[t].ent[1].expiresAt
        /\ old[t].order = <<2, 1>>
        /\ frame[t].calls = << <<1, "b">> >>
        /\ keys(TheList) = <<2>>
\* the call of t is one that reads: Peek, Contains, GetOldest, Keys, Len, or
\* a Get whose key is not in the map or is expired at the clock it read
Reads(t) ==
    \/ frame[t].op \in {"Peek", "Contains", "GetOldest", "Keys", "Len"}
    \/ /\ frame[t].op = "Get"
       /\ \/ frame[t].key \notin OldKeys(t)
          \/ Expired(frame[t].now, old[t].ent[frame[t].key])

\* C16: when a reading call returns, the keys, their order, every entry's
\* value and expiresAt, Len() and the capacity are those it found and nothing
\* was called, so an expired entry met by Get or Peek is still there in its
\* place; GetOldest returns the oldest entry found, expired or not, and zero
\* values on an empty cache; and the step of a reading call changes no field
\* of the cache and no Element
C16_Reads ==
    /\ [](\A t \in Callers :
            AtRet(t) /\ Reads(t) =>
                LET f == frame[t]
                    o == old[t].order
                IN  /\ keys(TheList) = o
                    /\ NowKeys = OldKeys(t)
                    /\ Kept(t, OldKeys(t))
                    /\ ListLen(TheList) = old[t].len
                    /\ size = old[t].size
                    /\ f.calls = <<>>
                    /\ f.op = "GetOldest" =>
                          /\ f.ret.ok = (o # <<>>)
                          /\ f.ret.key = IF o = <<>> THEN ZeroKT ELSE o[1]
                          /\ f.ret.value = IF o = <<>> THEN ZeroVT
                                            ELSE old[t].ent[o[1]].value)
    /\ [][\A t \in Callers :
            pc[t] = "idle" /\ AtRet(t)' /\ Reads(t)' =>
                UNCHANGED <<items, elem, len, config, done>>]_vars

\* Get(1) at time 1 did not find the oldest entry, which expired at 0, and
\* left it the oldest of <<1, 2>>
C16_Witness ==
    \E t \in Callers :
        /\ AtRet(t) /\ frame[t].op = "Get" /\ frame[t].key = 1 /\ ~frame[t].ret.ok
        /\ old[t].ent[1].expiresAt = 0 /\ frame[t].now = 1
        /\ old[t].order = <<1, 2>>
        /\ keys(TheList) = <<1, 2>>
\* the call of t is a DeleteExpired or a pass of the sweep
Deletes(t) == frame[t].op \in {"DeleteExpired", "sweep"}

\* the keys the call of t found whose entry is expired at clock c
ExpiredAt(t, c) == {k \in OldKeys(t) : Expired(c, old[t].ent[k])}

\* the calls of the callback for the keys of S, in the order Keys() had
CallsFor(t, S) ==
    LET q == SelectSeq(old[t].order, LAMBDA k : k \in S)
    IN  IF onEvicted THEN [i \in 1..Len(q) |-> <<q[i], old[t].ent[q[i]].value>>]
        ELSE <<>>

\* C17 as claimed: when DeleteExpired or a sweep pass returns, the entries
\* that left are exactly those expired at the clock the call started with,
\* each called once, and the others keep value, expiresAt and order
C17_AsOfCall ==
    \A t \in Threads :
        AtRet(t) /\ Deletes(t) =>
            LET gone == ExpiredAt(t, frame[t].now)
            IN  /\ NowKeys = OldKeys(t) \ gone
                /\ frame[t].calls = CallsFor(t, gone)
                /\ keys(TheList) = Without(old[t].order, gone)
                /\ Kept(t, NowKeys)

\* C17 amended: when DeleteExpired or a sweep pass returns, every entry
\* expired at the clock the call started with has left, every entry that left
\* is expired at the clock of the return, each was called once oldest first
\* with the value found, and the others keep value, expiresAt and order; and
\* the entry a pass removes is expired at the clock read for it
C17_DeleteExpired ==
    /\ [](\A t \in Threads :
            AtRet(t) /\ Deletes(t) =>
                LET gone == OldKeys(t) \ NowKeys
                IN  /\ NowKeys \subseteq OldKeys(t)
                    /\ ExpiredAt(t, frame[t].now) \subseteq gone
                    /\ gone \subseteq ExpiredAt(t, now)
                    /\ frame[t].calls = CallsFor(t, gone)
                    /\ keys(TheList) = Without(old[t].order, gone)
                    /\ Kept(t, NowKeys))
    /\ [][\A t \in Threads :
            pc[t] = "deleteExpired" /\ pc'[t] = "removeElement" =>
                /\ Expired(now, elem[frame'[t].e].Value)]_vars

\* DeleteExpired started at time 0, when the entry of key 1 with expiresAt 0
\* was not expired, removed it at time 1 and kept key 2, which expires at 1
C17_Witness ==
    \E t \in Callers :
        /\ AtRet(t) /\ frame[t].op = "DeleteExpired" /\ frame[t].now = 0
        /\ old[t].order = <<1, 2>>
        /\ old[t].ent[1].expiresAt = 0
        /\ old[t].ent[2].expiresAt = 1
        /\ keys(TheList) = <<2>>
        /\ frame[t].calls = << <<1, "a">> >>
\* C18: a Close on a cache whose done channel is open closes it and returns;
\* a Close on a cache whose done channel is closed panics, with or without a
\* sweep goroutine; in both cases Close changes no entry, no Element and no
\* setting, and the panicking Close releases the lock on its way out and
\* leaves map and list as they were, in agreement
C18_DoubleClose ==
    /\ [][\A t \in Callers :
            pc[t] = "idle" /\ AtRet(t)' /\ frame'[t].op = "Close" =>
                /\ frame'[t].ret.panic = done
                /\ done'
                /\ UNCHANGED <<items, elem, len, config>>]_vars
    /\ [][\A t \in Callers :
            AtRet(t) /\ frame[t].op = "Close" /\ ~AtRet(t)' =>
                /\ pc'[t] = IF frame[t].ret.panic THEN "panicked" ELSE "idle"
                /\ mutex /\ ~mutex'
                /\ UNCHANGED <<items, elem, len, config, done>>]_vars
    /\ [](~Alive => done /\ ~mutex /\ Bijection(items, TheList))

\* the second Close panicked after the sweep goroutine had returned; the lock
\* is free and the two entries are in the cache
C18_Witness ==
    /\ pc["c2"] = "panicked"
    /\ pc[Sweeper] = "exit"
    /\ ~mutex
    /\ keys(TheList) = <<1, 2>>
\* C19: List.Remove and List.MoveToFront on a handle that is not an Element
\* of l (an Element of another list, one removed from l, one l.Init() dropped)
\* leave the links of l's sentinel and Elements and l's count as they are and
\* do not panic; MoveToFront never changes the count
C19_StaleSafe ==
    /\ [](pc[SeqCaller] # "panicked")
    /\ [][LET op == frame'[SeqCaller].op
              e == frame'[SeqCaller].e
          IN  /\ op \in {"Remove", "MoveToFront"} /\ e \notin Members(TheList) =>
                    /\ len' = len
                    /\ elem'[root] = elem[root]
                    /\ \A m \in Members(TheList) : elem'[m] = elem[m]
              /\ op = "MoveToFront" => len' = len]_vars
====
